---- MODULE Spec2Model ----
(***************************************************************************)
(* A model of discord-language-loader: the LanguageLoader class of         *)
(* src/core/LanguageLoader.js (bulk load, chokidar change handlers,        *)
(* updateLanguage, loadlang, loadlangmsg), the decoder of                  *)
(* src/services/LanguageFileService.js and the key validator of            *)
(* src/utils/validationUtils.js.                                           *)
(*                                                                         *)
(* Strings the code inspects character by character (file names, locale    *)
(* codes, dotted message keys) are sequences of one-character strings.     *)
(* File contents are opaque texts.  Every action is one run of JavaScript  *)
(* from one await (or an external call or event) to the next await.        *)
(***************************************************************************)
EXTENDS Integers, Sequences, FiniteSets, TLC

VARIABLES
  fs,               \* the language folder: file name -> text, or NoFile
  pending,          \* stabilized chokidar events not yet emitted
  languages,        \* this.languages: Map code -> parsed data
  fileContents,     \* this.fileContents: Map code -> raw text
  emitted,          \* the events emitted by the loader, in order
  bulk,             \* the un-awaited loadLanguages() call of the constructor
  handlers,         \* the running invocations of the async "change" listener
  upd,              \* the running updateLanguage() call
  lastRead,         \* what the loadlang / loadlangmsg call of the last step returned
  writes,           \* file system changes made so far
  calls,            \* updateLanguage calls made so far
  defaultLanguage,  \* this.defaultLanguage
  fallbackLanguage, \* this.fallbackLanguage
  folder,           \* this.folder on disk: a directory, or NoFile
  decoder,          \* the LanguageFileService module the build loads
  rejected          \* the async calls whose promise was rejected

vars == <<fs, pending, languages, fileContents, emitted, bulk, handlers, upd,
          lastRead, writes, calls, defaultLanguage, fallbackLanguage, folder, decoder, rejected>>

(***************************************************************************)
(* Bounds of the model.                                                    *)
(***************************************************************************)
MaxWrites == 2
MaxCalls == 1
MaxHandlers == 2

(***************************************************************************)
(* Characters, names and texts.                                            *)
(***************************************************************************)
Lower == {"a", "b", "c", "d", "e", "f", "g", "h", "i", "j", "k", "l", "m",
          "n", "o", "p", "q", "r", "s", "t", "u", "v", "w", "x", "y", "z"}
Upper == {"A", "B", "C", "D", "E", "F", "G", "H", "I", "J", "K", "L", "M",
          "N", "O", "P", "Q", "R", "S", "T", "U", "V", "W", "X", "Y", "Z"}

en_UK == <<"e", "n", "_", "U", "K">>
de_DE == <<"d", "e", "_", "D", "E">>
fr_FR == <<"f", "r", "_", "F", "R">>
en == <<"e", "n">>
EN_uk == <<"E", "N", "_", "u", "k">>
en_UKx == <<"e", "n", "_", "U", "K", "x">>

DotJson == <<".", "j", "s", "o", "n">>
DotYml == <<".", "y", "m", "l">>
DotYaml == <<".", "y", "a", "m", "l">>
DotToml == <<".", "t", "o", "m", "l">>
DotTxt == <<".", "t", "x", "t">>

en_UK_json == en_UK \o DotJson
de_DE_yml == de_DE \o DotYml
en_json == en \o DotJson
en_UK_txt == en_UK \o DotTxt
en_UK_yaml == en_UK \o DotYaml
en_UK_yml == en_UK \o DotYml

NoFile == "ENOENT"

TextHi == "{\"w\":{\"m\":\"hi\"}}"
TextHello == "{\"w\":{\"m\":\"hello\"}}"
TextBad == "{\"w\":"

\* The texts the environment writes into files.
Contents == {TextHi, TextHello, TextBad}

(***************************************************************************)
(* JavaScript values.                                                      *)
(***************************************************************************)
Null == [kind |-> "null"]
Undefined == [kind |-> "undefined"]
Str(s) == [kind |-> "string", val |-> s]
Obj(p) == [kind |-> "object", props |-> p]
\* A value inherited from Object.prototype (a built-in function).
Builtin(k) == [kind |-> "function", name |-> k]
\* The result of a template literal: its literal parts and substitutions.
Lit(s) == [lit |-> s]
Sub(v) == [sub |-> v]
Template(parts) == [kind |-> "string", parts |-> parts]

KeyW == <<"w">>
KeyM == <<"m">>
TreeHi == Obj(KeyW :> Obj(KeyM :> Str("hi")))
TreeHello == Obj(KeyW :> Obj(KeyM :> Str("hello")))

\* JavaScript truthiness of the values above.
Truthy(v) ==
  CASE v.kind = "null" -> FALSE
    [] v.kind = "undefined" -> FALSE
    [] v.kind = "string" -> v # Str("")
    [] OTHER -> TRUE

\* Map.prototype.get: undefined for a missing key.
MapGet(map, k) == IF k \in DOMAIN map THEN map[k] ELSE Undefined
\* Map.prototype.set.
MapSet(map, k, v) == [x \in DOMAIN map \cup {k} |-> IF x = k THEN v ELSE map[x]]
EmptyMap == [x \in {} |-> Undefined]

(***************************************************************************)
(* path.extname, String.prototype.toLowerCase, path.basename.              *)
(***************************************************************************)
LastDot(s) ==
  IF \E i \in 1..Len(s) : s[i] = "."
    THEN CHOOSE i \in 1..Len(s) : s[i] = "." /\ \A j \in (i + 1)..Len(s) : s[j] # "."
    ELSE 0

\* "" when there is no dot or the only dot is the first character.
extname(s) == IF LastDot(s) <= 1 THEN <<>> ELSE SubSeq(s, LastDot(s), Len(s))

LowerOf(c) ==
  CASE c = "J" -> "j" [] c = "S" -> "s" [] c = "O" -> "o" [] c = "N" -> "n"
    [] c = "Y" -> "y" [] c = "M" -> "m" [] c = "L" -> "l" [] c = "A" -> "a"
    [] c = "T" -> "t" [] c = "X" -> "x" [] c = "E" -> "e" [] c = "U" -> "u"
    [] c = "K" -> "k" [] c = "D" -> "d" [] c = "F" -> "f" [] c = "R" -> "r"
    [] OTHER -> c
toLowerCase(s) == [i \in 1..Len(s) |-> LowerOf(s[i])]

\* basename(name, ext): the name without the suffix ext, when it ends with it.
basename(s, ext) ==
  IF /\ ext # <<>>
     /\ Len(ext) < Len(s)
     /\ SubSeq(s, Len(s) - Len(ext) + 1, Len(s)) = ext
    THEN SubSeq(s, 1, Len(s) - Len(ext))
    ELSE s

RecognizedExts == {DotYaml, DotYml, DotJson, DotToml}

\* The language name the loader derives from a file name.
LangNameOf(file) == basename(file, toLowerCase(extname(file)))

(***************************************************************************)
(* isValidLanguageKey: /^[a-z]{2}_[A-Z]{2}$/.test(key)                     *)
(***************************************************************************)
isValidLanguageKeyIgnoreCase(key) ==
  /\ Len(key) = 5
  /\ key[1] \in Lower \cup Upper /\ key[2] \in Lower \cup Upper
  /\ key[3] = "_"
  /\ key[4] \in Lower \cup Upper /\ key[5] \in Lower \cup Upper

isValidLanguageKey(key) ==
  /\ Len(key) = 5
  /\ key[1] \in Lower /\ key[2] \in Lower
  /\ key[3] = "_"
  /\ key[4] \in Upper /\ key[5] \in Upper

(***************************************************************************)
(* The decoders: JSON.parse, yaml.load, toml.parse on the model's texts.   *)
(* A result is Returned(data) or Thrown.                                   *)
(***************************************************************************)
Returned(v) == [ok |-> TRUE, data |-> v]
Thrown == [ok |-> FALSE]

JSONparse(text) ==
  CASE text = TextHi -> Returned(TreeHi)
    [] text = TextHello -> Returned(TreeHello)
    [] text = "null" -> Returned(Null)
    [] OTHER -> Thrown

\* JSON objects are YAML flow mappings; an empty document loads as undefined.
yamlload(text) ==
  CASE text = TextHi -> Returned(TreeHi)
    [] text = TextHello -> Returned(TreeHello)
    [] text = "null" -> Returned(Null)
    [] text = "" -> Returned(Undefined)
    [] OTHER -> Thrown

tomlparse(text) ==
  CASE text = "" -> Returned(Obj(EmptyMap))
    [] OTHER -> Thrown

\* The repository holds two LanguageFileService modules.
ServiceJs == "src/services/LanguageFileService.js"
ServiceEn == "src/unnamed/part_002"

\* The extensions the loaded module hands to yaml.load.
YamlExts == IF decoder = ServiceEn THEN {DotYml} ELSE {DotYaml, DotYml}

\* LanguageFileService.loadLanguageFile on the folder state dir: the parsed
\* data, or null when the read, the dispatch on the extension or the
\* decoder throws.
loadLanguageFile(dir, filePath) ==
  LET ext == toLowerCase(extname(filePath))
      res == CASE ext \in YamlExts -> yamlload(dir[filePath])
               [] ext = DotJson -> JSONparse(dir[filePath])
               [] ext = DotToml -> tomlparse(dir[filePath])
               [] OTHER -> Thrown
  IN IF filePath \notin DOMAIN dir \/ dir[filePath] = NoFile THEN Null
     ELSE IF res.ok THEN res.data ELSE Null

(***************************************************************************)
(* The read operations: loadlang and loadlangmsg.                          *)
(***************************************************************************)
loadlangDefault(langs, fallback, default, languageKey) ==
  IF ~isValidLanguageKey(languageKey) THEN MapGet(langs, default)
  ELSE IF languageKey \in DOMAIN langs THEN langs[languageKey]
  ELSE MapGet(langs, default)

loadlangAnyLoaded(langs, fallback, default, languageKey) ==
  LET other == IF fallback \in DOMAIN langs THEN langs[fallback]
               ELSE IF DOMAIN langs = {} THEN Undefined
               ELSE langs[CHOOSE c \in DOMAIN langs : TRUE]
  IN IF ~isValidLanguageKey(languageKey) THEN other
     ELSE IF languageKey \in DOMAIN langs THEN langs[languageKey]
     ELSE other

loadlang(langs, fallback, default, languageKey) ==
  IF ~isValidLanguageKey(languageKey) THEN MapGet(langs, fallback)
  ELSE IF languageKey \in DOMAIN langs THEN langs[languageKey]
  ELSE MapGet(langs, fallback)

\* String.prototype.split("."): the segments between the dots.
RECURSIVE split(_)
split(s) ==
  IF \A i \in 1..Len(s) : s[i] # "." THEN <<s>>
  ELSE LET d == CHOOSE i \in 1..Len(s) : s[i] = "." /\ \A j \in 1..(i - 1) : s[j] # "."
       IN <<SubSeq(s, 1, d - 1)>> \o split(SubSeq(s, d + 1, Len(s)))

\* The property names every object inherits from Object.prototype
\* (two of them stand for all).
ObjectPrototype == {<<"c", "o", "n", "s", "t", "r", "u", "c", "t", "o", "r">>,
                    <<"t", "o", "S", "t", "r", "i", "n", "g">>}

\* key in obj: own and inherited properties.
HasProperty(obj, key) == key \in DOMAIN obj.props \/ key \in ObjectPrototype
\* obj[key]
GetProperty(obj, key) ==
  IF key \in DOMAIN obj.props THEN obj.props[key] ELSE Builtin(key)

KeyNotFound(messageKey, langKey) ==
  Template(<<Lit("Message key \""), Sub(messageKey),
             Lit("\" nicht gefunden in \""), Sub(langKey), Lit("\".")>>)

RECURSIVE walk(_, _, _, _)
walk(result, keys, messageKey, langKey) ==
  IF keys = <<>> THEN result
  ELSE IF Truthy(result) /\ result.kind = "object" /\ HasProperty(result, Head(keys))
    THEN walk(GetProperty(result, Head(keys)), Tail(keys), messageKey, langKey)
  ELSE KeyNotFound(messageKey, langKey)

loadlangmsg(langs, fallback, langKey, messageKey) ==
  IF ~isValidLanguageKey(langKey)
    THEN Template(<<Lit("Ungueltiger Sprachschluessel \""), Sub(langKey), Lit("\".")>>)
  ELSE LET own == MapGet(langs, langKey)
           langData == IF Truthy(own) THEN own ELSE MapGet(langs, fallback)
       IN IF ~Truthy(langData)
            THEN Template(<<Lit("Weder \""), Sub(langKey), Lit("\" noch Fallback \""),
                            Sub(fallback), Lit("\" vorhanden.")>>)
          ELSE walk(langData, split(messageKey), messageKey, langKey)

(***************************************************************************)
(* The events the loader emits.  The change listener names the code        *)
(* langName in the payload, updateLanguage names it langKey.               *)
(***************************************************************************)
LoadedEvent(langName, langData) ==
  [event |-> "languageLoaded", payload |-> [langName |-> langName, langData |-> langData]]
UpdatedEvent(langName, langData) ==
  [event |-> "languageUpdated", payload |-> [langName |-> langName, langData |-> langData]]
UpdatedEventByKey(langKey, langData) ==
  [event |-> "languageUpdated", payload |-> [langKey |-> langKey, langData |-> langData]]

\* The locale code a notification carries, under either property name.
CodeOf(n) ==
  IF "langName" \in DOMAIN n.payload THEN n.payload.langName ELSE n.payload.langKey

(***************************************************************************)
(* The constructor.                                                        *)
(***************************************************************************)
\* The constructor reaches loadLanguages() and watchLanguageFiles() only
\* with a valid default and a valid fallback key.
StartedDefaultOnly == isValidLanguageKey(defaultLanguage)
Started == isValidLanguageKey(defaultLanguage) /\ isValidLanguageKey(fallbackLanguage)

\* The chokidar events the loader listens to.
Subscribed == {"change"}

IdleBulk(pc) == [pc |-> pc, todo |-> {}, cur |-> <<>>, langData |-> Undefined]
IdleHandler == [pc |-> "idle", filePath |-> <<>>, newFileContent |-> ""]
IdleUpd == [pc |-> "idle", langKey |-> <<>>, filePath |-> <<>>, newFileContent |-> ""]
NoRead == [op |-> "none"]
NoPath == <<>>

\* readdir: the names of the files in the folder.
readdir(dir) == {f \in DOMAIN dir : dir[f] # NoFile}

\* The folders the loader is constructed on.  The domain of a folder is the
\* set of names its files have during the run.
DirMixed == (en_UK_json :> TextHi) @@ (en_json :> TextHi) @@ (en_UK_txt :> TextHi)
DirBroken == (en_UK_json :> TextBad) @@ (de_DE_yml :> NoFile)
InitDirs == {DirMixed, DirBroken}
DirYaml == (en_UK_yaml :> TextHi)
\* No file has a name in a folder that does not exist.
NoFiles == [f \in {} |-> NoFile]
Directory == "directory"

InitLoaderDeliversInitial ==
  /\ pending = IF Started THEN {[type |-> "change", path |-> f] : f \in readdir(fs)} ELSE {}
  /\ languages = EmptyMap
  /\ fileContents = EmptyMap
  /\ emitted = <<>>
  /\ bulk = IdleBulk(IF Started THEN "readdir" ELSE "inert")
  /\ handlers = [i \in 1..MaxHandlers |-> IdleHandler]
  /\ upd = IdleUpd
  /\ lastRead = NoRead
  /\ writes = 0
  /\ calls = 0
  /\ rejected = {}

\* The state when the constructor returns: loadLanguages() has run up to
\* its first await, the watcher is created.
InitLoader ==
  /\ pending = {}
  /\ languages = EmptyMap
  /\ fileContents = EmptyMap
  /\ emitted = <<>>
  /\ bulk = IdleBulk(IF Started THEN "readdir" ELSE "inert")
  /\ handlers = [i \in 1..MaxHandlers |-> IdleHandler]
  /\ upd = IdleUpd
  /\ lastRead = NoRead
  /\ writes = 0
  /\ calls = 0
  /\ rejected = {}

\* new LanguageLoader({folderLang, defaultLang, fallbackLang}) by an
\* application built with the given LanguageFileService module.
Construct(dir, state, default, fallback, service) ==
  /\ fs = dir
  /\ folder = state
  /\ defaultLanguage = default
  /\ fallbackLanguage = fallback
  /\ decoder = service
  /\ InitLoader

Init ==
  \/ \E dir \in InitDirs : Construct(dir, Directory, de_DE, en_UK, ServiceJs)
  \/ Construct(DirYaml, Directory, de_DE, en_UK, ServiceEn)
  \/ Construct(NoFiles, NoFile, de_DE, en_UK, ServiceJs)
  \/ Construct(DirMixed, Directory, en, en_UK, ServiceJs)
  \/ Construct(DirMixed, Directory, de_DE, EN_uk, ServiceJs)

(***************************************************************************)
(* The environment: editors write, create and remove files; chokidar       *)
(* reports a write to an existing file as "change", a new file as "add".   *)
(***************************************************************************)
EventOf(type, path) == [type |-> type, path |-> path]

Notice(type, path) ==
  IF Started /\ type \in Subscribed THEN pending \cup {EventOf(type, path)} ELSE pending

WriteFile(f, text) ==
  /\ writes < MaxWrites
  /\ fs' = [fs EXCEPT ![f] = text]
  /\ pending' = Notice(IF fs[f] = NoFile THEN "add" ELSE "change", f)
  /\ writes' = writes + 1
  /\ lastRead' = NoRead
  /\ UNCHANGED <<languages, fileContents, emitted, bulk, handlers, upd, calls,
                 defaultLanguage, fallbackLanguage, folder, decoder, rejected>>

Unlink(f) ==
  /\ writes < MaxWrites
  /\ fs[f] # NoFile
  /\ fs' = [fs EXCEPT ![f] = NoFile]
  /\ pending' = Notice("unlink", f)
  /\ writes' = writes + 1
  /\ lastRead' = NoRead
  /\ UNCHANGED <<languages, fileContents, emitted, bulk, handlers, upd, calls,
                 defaultLanguage, fallbackLanguage, folder, decoder, rejected>>

(***************************************************************************)
(* loadLanguages                                                           *)
(***************************************************************************)
Recognized(file) == toLowerCase(extname(file)) \in RecognizedExts

\* The head of the for loop over the directory listing: files without a
\* recognized extension are passed over, the next recognized file is
\* handed to loadLanguageFile; the listing's order is the file system's.
BulkContinue(todo) ==
  IF \A f \in todo : ~Recognized(f)
    THEN {IdleBulk("done")}
    ELSE {[pc |-> "load", todo |-> todo \ {f}, cur |-> f, langData |-> Undefined] :
            f \in {g \in todo : Recognized(g)}}

\* A rejected readdir is caught by the try around the whole scan.
BulkReaddir ==
  /\ bulk.pc = "readdir"
  /\ bulk' \in IF folder = NoFile THEN {IdleBulk("done")} ELSE BulkContinue(readdir(fs))
  /\ lastRead' = NoRead
  /\ UNCHANGED <<fs, pending, languages, fileContents, emitted, handlers, upd,
                 writes, calls, defaultLanguage, fallbackLanguage, folder, decoder, rejected>>

BulkLoadStopsAtBadName ==
  /\ bulk.pc = "load"
  /\ LET langData == loadLanguageFile(fs, bulk.cur)
     IN IF Truthy(langData) /\ isValidLanguageKey(LangNameOf(bulk.cur))
          THEN bulk' = [bulk EXCEPT !.pc = "readFile", !.langData = langData]
        ELSE IF Truthy(langData) THEN bulk' = IdleBulk("done")
        ELSE bulk' \in BulkContinue(bulk.todo)
  /\ lastRead' = NoRead
  /\ UNCHANGED <<fs, pending, languages, fileContents, emitted, handlers, upd,
                 writes, calls, defaultLanguage, fallbackLanguage, folder, decoder, rejected>>

BulkLoad ==
  /\ bulk.pc = "load"
  /\ LET langData == loadLanguageFile(fs, bulk.cur)
     IN IF Truthy(langData) /\ isValidLanguageKey(LangNameOf(bulk.cur))
          THEN bulk' = [bulk EXCEPT !.pc = "readFile", !.langData = langData]
          ELSE bulk' \in BulkContinue(bulk.todo)
  /\ lastRead' = NoRead
  /\ UNCHANGED <<fs, pending, languages, fileContents, emitted, handlers, upd,
                 writes, calls, defaultLanguage, fallbackLanguage, folder, decoder, rejected>>

BulkRead ==
  /\ bulk.pc = "readFile"
  /\ bulk' \in BulkContinue(bulk.todo)
  /\ IF fs[bulk.cur] = NoFile
       THEN UNCHANGED <<languages, fileContents>>
       ELSE /\ languages' = MapSet(languages, LangNameOf(bulk.cur), bulk.langData)
            /\ fileContents' = MapSet(fileContents, LangNameOf(bulk.cur), fs[bulk.cur])
  /\ lastRead' = NoRead
  /\ UNCHANGED <<fs, pending, emitted, handlers, upd, writes, calls,
                 defaultLanguage, fallbackLanguage, folder, decoder, rejected>>

(***************************************************************************)
(* watchLanguageFiles: the async listener of "change".                     *)
(***************************************************************************)
FreeSlot == CHOOSE i \in 1..MaxHandlers :
              handlers[i].pc = "idle" /\ \A j \in 1..(i - 1) : handlers[j].pc # "idle"

\* chokidar emits the event: the listener runs up to its await of readFile.
Change(ev) ==
  /\ ev \in pending
  /\ ev.type = "change"
  /\ \E i \in 1..MaxHandlers : handlers[i].pc = "idle"
  /\ pending' = pending \ {ev}
  /\ handlers' = IF Recognized(ev.path)
                   THEN [handlers EXCEPT ![FreeSlot] =
                           [pc |-> "readFile", filePath |-> ev.path, newFileContent |-> ""]]
                   ELSE handlers
  /\ lastRead' = NoRead
  /\ UNCHANGED <<fs, languages, fileContents, emitted, bulk, upd, writes, calls,
                 defaultLanguage, fallbackLanguage, folder, decoder, rejected>>

\* oldFileContent !== newFileContent
ContentChangedAlways(oldFileContent, newFileContent) == TRUE
ContentChanged(oldFileContent, newFileContent) == oldFileContent # newFileContent

\* readFile settles: the key check and the comparison with the stored text.
HandlerRead(i) ==
  /\ handlers[i].pc = "readFile"
  /\ LET path == handlers[i].filePath
         langName == LangNameOf(path)
     IN handlers' = [handlers EXCEPT ![i] =
          IF fs[path] = NoFile \/ ~isValidLanguageKey(langName) THEN IdleHandler
          ELSE IF langName \notin DOMAIN fileContents
            THEN [pc |-> "loadNew", filePath |-> path, newFileContent |-> fs[path]]
          ELSE IF ContentChanged(fileContents[langName], fs[path])
            THEN [pc |-> "loadUpdate", filePath |-> path, newFileContent |-> fs[path]]
          ELSE IdleHandler]
  /\ lastRead' = NoRead
  /\ UNCHANGED <<fs, pending, languages, fileContents, emitted, bulk, upd, writes,
                 calls, defaultLanguage, fallbackLanguage, folder, decoder, rejected>>

\* What a handler stores after loadLanguageFile returned langData.
HandlerStoresAlways(langData) == TRUE
HandlerStores(langData) == langData # Null

\* The event a handler emits after it stored the data.
WatchEventAlwaysLoaded(event, langName, langData) == LoadedEvent(langName, langData)
WatchEvent(event, langName, langData) ==
  IF event = "languageLoaded" THEN LoadedEvent(langName, langData)
  ELSE UpdatedEvent(langName, langData)

HandlerLoadEvicts(i, pc, event) ==
  /\ handlers[i].pc = pc
  /\ LET path == handlers[i].filePath
         langName == LangNameOf(path)
         langData == loadLanguageFile(fs, path)
     IN IF HandlerStores(langData)
          THEN /\ languages' = MapSet(languages, langName, langData)
               /\ fileContents' = MapSet(fileContents, langName, handlers[i].newFileContent)
               /\ emitted' = Append(emitted, WatchEvent(event, langName, langData))
          ELSE /\ languages' = [c \in DOMAIN languages \ {langName} |-> languages[c]]
               /\ fileContents' = [c \in DOMAIN fileContents \ {langName} |-> fileContents[c]]
               /\ emitted' = emitted
  /\ handlers' = [handlers EXCEPT ![i] = IdleHandler]
  /\ lastRead' = NoRead
  /\ UNCHANGED <<fs, pending, bulk, upd, writes, calls, defaultLanguage, fallbackLanguage,
                 folder, decoder, rejected>>

HandlerLoadTreeOnly(i, pc, event) ==
  /\ handlers[i].pc = pc
  /\ LET path == handlers[i].filePath
         langName == LangNameOf(path)
         langData == loadLanguageFile(fs, path)
     IN IF HandlerStores(langData)
          THEN /\ languages' = MapSet(languages, langName, langData)
               /\ fileContents' = fileContents
               /\ emitted' = Append(emitted, WatchEvent(event, langName, langData))
          ELSE UNCHANGED <<languages, fileContents, emitted>>
  /\ handlers' = [handlers EXCEPT ![i] = IdleHandler]
  /\ lastRead' = NoRead
  /\ UNCHANGED <<fs, pending, bulk, upd, writes, calls, defaultLanguage, fallbackLanguage,
                 folder, decoder, rejected>>

HandlerLoad(i, pc, event) ==
  /\ handlers[i].pc = pc
  /\ LET path == handlers[i].filePath
         langName == LangNameOf(path)
         langData == loadLanguageFile(fs, path)
     IN IF HandlerStores(langData)
          THEN /\ languages' = MapSet(languages, langName, langData)
               /\ fileContents' = MapSet(fileContents, langName, handlers[i].newFileContent)
               /\ emitted' = Append(emitted, WatchEvent(event, langName, langData))
          ELSE UNCHANGED <<languages, fileContents, emitted>>
  /\ handlers' = [handlers EXCEPT ![i] = IdleHandler]
  /\ lastRead' = NoRead
  /\ UNCHANGED <<fs, pending, bulk, upd, writes, calls, defaultLanguage, fallbackLanguage,
                 folder, decoder, rejected>>

\* No stored text for the code: the file is loaded for the first time.
HandlerLoadNew(i) == HandlerLoad(i, "loadNew", "languageLoaded")

\* The text differs from the stored one: the file is reloaded.
HandlerLoadUpdate(i) == HandlerLoad(i, "loadUpdate", "languageUpdated")

(***************************************************************************)
(* updateLanguage                                                          *)
(***************************************************************************)
UpdCall(langKey, filePath) ==
  /\ calls < MaxCalls
  /\ upd.pc = "idle"
  /\ calls' = calls + 1
  /\ upd' = IF ~isValidLanguageKey(langKey) THEN IdleUpd
            ELSE IF filePath = NoPath
              THEN [pc |-> "readdir", langKey |-> langKey, filePath |-> NoPath,
                    newFileContent |-> ""]
            ELSE [pc |-> "readFile", langKey |-> langKey, filePath |-> filePath,
                  newFileContent |-> ""]
  /\ lastRead' = NoRead
  /\ UNCHANGED <<fs, pending, languages, fileContents, emitted, bulk, handlers,
                 writes, defaultLanguage, fallbackLanguage, folder, decoder, rejected>>

\* files.find: the first file of the listing with the code as its stem and
\* a recognized extension.  The await of readdir is outside any try: when
\* it rejects, the promise of updateLanguage rejects.
UpdReaddir ==
  /\ upd.pc = "readdir"
  /\ LET found == {f \in readdir(fs) :
                     basename(f, extname(f)) = upd.langKey /\ Recognized(f)}
     IN IF folder = NoFile
          THEN upd' = IdleUpd /\ rejected' = rejected \cup {"updateLanguage"}
        ELSE IF found = {} THEN upd' = IdleUpd /\ rejected' = rejected
        ELSE /\ \E f \in found : upd' = [upd EXCEPT !.pc = "readFile", !.filePath = f]
             /\ rejected' = rejected
  /\ lastRead' = NoRead
  /\ UNCHANGED <<fs, pending, languages, fileContents, emitted, bulk, handlers,
                 writes, calls, defaultLanguage, fallbackLanguage, folder, decoder>>

UpdReadIfChanged ==
  /\ upd.pc = "readFile"
  /\ upd' = IF upd.filePath \notin DOMAIN fs \/ fs[upd.filePath] = NoFile THEN IdleUpd
            ELSE IF /\ upd.langKey \in DOMAIN fileContents
                    /\ fileContents[upd.langKey] = fs[upd.filePath] THEN IdleUpd
            ELSE [upd EXCEPT !.pc = "load", !.newFileContent = fs[upd.filePath]]
  /\ lastRead' = NoRead
  /\ UNCHANGED <<fs, pending, languages, fileContents, emitted, bulk, handlers,
                 writes, calls, defaultLanguage, fallbackLanguage, folder, decoder, rejected>>

UpdRead ==
  /\ upd.pc = "readFile"
  /\ upd' = IF upd.filePath \notin DOMAIN fs \/ fs[upd.filePath] = NoFile THEN IdleUpd
            ELSE [upd EXCEPT !.pc = "load", !.newFileContent = fs[upd.filePath]]
  /\ lastRead' = NoRead
  /\ UNCHANGED <<fs, pending, languages, fileContents, emitted, bulk, handlers,
                 writes, calls, defaultLanguage, fallbackLanguage, folder, decoder, rejected>>

UpdLoad ==
  /\ upd.pc = "load"
  /\ LET langData == loadLanguageFile(fs, upd.filePath)
     IN /\ languages' = MapSet(languages, upd.langKey, langData)
        /\ fileContents' = MapSet(fileContents, upd.langKey, upd.newFileContent)
        /\ emitted' = Append(emitted, UpdatedEventByKey(upd.langKey, langData))
  /\ upd' = IdleUpd
  /\ lastRead' = NoRead
  /\ UNCHANGED <<fs, pending, bulk, handlers, writes, calls, defaultLanguage,
                 fallbackLanguage, folder, decoder, rejected>>

(***************************************************************************)
(* External reads.                                                         *)
(***************************************************************************)
ReadLang(languageKey) ==
  /\ lastRead' = [op |-> "loadlang", langKey |-> languageKey, messageKey |-> <<>>,
                  result |-> loadlang(languages, fallbackLanguage, defaultLanguage,
                                      languageKey)]
  /\ UNCHANGED <<fs, pending, languages, fileContents, emitted, bulk, handlers, upd,
                 writes, calls, defaultLanguage, fallbackLanguage, folder, decoder, rejected>>

ReadMsg(langKey, messageKey) ==
  /\ lastRead' = [op |-> "loadlangmsg", langKey |-> langKey, messageKey |-> messageKey,
                  result |-> loadlangmsg(languages, fallbackLanguage, langKey, messageKey)]
  /\ UNCHANGED <<fs, pending, languages, fileContents, emitted, bulk, handlers, upd,
                 writes, calls, defaultLanguage, fallbackLanguage, folder, decoder, rejected>>

(***************************************************************************)
(* The specification of the running loader.                                *)
(***************************************************************************)
\* The arguments of the calls the application makes.
CallKeys == {en_UK, EN_uk}
CallPaths == {NoPath, en_UK_txt}
W_M == <<"w", ".", "m">>

Next ==
  \/ \E f \in DOMAIN fs, text \in Contents : WriteFile(f, text)
  \/ \E f \in DOMAIN fs : Unlink(f)
  \/ BulkReaddir
  \/ BulkLoad
  \/ BulkRead
  \/ \E ev \in pending : Change(ev)
  \/ \E i \in 1..MaxHandlers : HandlerRead(i)
  \/ \E i \in 1..MaxHandlers : HandlerLoadNew(i)
  \/ \E i \in 1..MaxHandlers : HandlerLoadUpdate(i)
  \/ \E langKey \in CallKeys, filePath \in CallPaths : UpdCall(langKey, filePath)
  \/ UpdReaddir
  \/ UpdRead
  \/ UpdLoad
  \/ ReadLang(en_UK)
  \/ ReadMsg(en_UK, W_M)

Spec == Init /\ [][Next]_vars

(***************************************************************************)
(* The read operations on their own: any store the loader can hold, any    *)
(* valid configuration, and the calls of an application.                   *)
(***************************************************************************)
\* A stored pair of parsed data and raw text: a parsed file, null (stored
\* by updateLanguage), undefined (an empty YAML document) or a tree
\* without keys (an empty TOML document).
Entries == {<<TreeHi, TextHi>>, <<TreeHello, TextHello>>, <<Null, TextBad>>,
            <<Undefined, "">>, <<Obj(EmptyMap), "">>}
StoreCodes == {en_UK, de_DE, fr_FR}

W_X == <<"w", ".", "x">>
W_M_X == <<"w", ".", "m", ".", "x">>
W_Dot == <<"w", ".">>
W_constructor == <<"w", ".", "c", "o", "n", "s", "t", "r", "u", "c", "t", "o", "r">>
toString == <<"t", "o", "S", "t", "r", "i", "n", "g">>

ProbeKeys == {en_UK, de_DE, fr_FR, EN_uk, en_UKx}
ProbePaths == {W_M, KeyW, W_X, KeyM, W_M_X, W_Dot, <<>>, W_constructor, toString}

ReadInit ==
  /\ defaultLanguage \in {en_UK, de_DE}
  /\ fallbackLanguage \in {en_UK, de_DE}
  /\ \E S \in SUBSET StoreCodes : \E e \in [S -> Entries] :
       /\ languages = [c \in S |-> e[c][1]]
       /\ fileContents = [c \in S |-> e[c][2]]
  /\ fs = DirMixed
  /\ folder = Directory
  /\ decoder = ServiceJs
  /\ rejected = {}
  /\ pending = {}
  /\ emitted = <<>>
  /\ bulk = IdleBulk("done")
  /\ handlers = [i \in 1..MaxHandlers |-> IdleHandler]
  /\ upd = IdleUpd
  /\ lastRead = NoRead
  /\ writes = MaxWrites
  /\ calls = MaxCalls

ReadNext ==
  \/ \E langKey \in ProbeKeys : ReadLang(langKey)
  \/ \E langKey \in ProbeKeys, messageKey \in ProbePaths : ReadMsg(langKey, messageKey)

ReadSpec == ReadInit /\ [][ReadNext]_vars

(***************************************************************************)
(* The bulk load on its own: loadLanguages() on any folder of up to three  *)
(* files, two of them with the same stem, that nothing writes to.          *)
(***************************************************************************)
ScanFiles == {en_UK_json, en_UK_yml, de_DE_yml}
ScanTexts == {TextHi, TextHello, TextBad, NoFile}

ScanInit ==
  \E dir \in [ScanFiles -> ScanTexts] : Construct(dir, Directory, de_DE, en_UK, ServiceJs)

ScanNext ==
  \/ BulkReaddir
  \/ BulkLoad
  \/ BulkRead

ScanSpec == ScanInit /\ [][ScanNext]_vars

(***************************************************************************)
(* Notions the properties below share.                                     *)
(***************************************************************************)
\* The shape ^[a-z]{2}_[A-Z]{2}$ of a locale code.
LocaleShape(c) ==
  /\ Len(c) = 5
  /\ \A i \in {1, 2} : c[i] \in Lower
  /\ c[3] = "_"
  /\ \A i \in {4, 5} : c[i] \in Upper

\* Nothing is running and nothing is waiting to run.
Quiescent ==
  /\ bulk.pc \in {"done", "inert"}
  /\ pending = {}
  /\ \A i \in 1..MaxHandlers : handlers[i].pc = "idle"
  /\ upd.pc = "idle"

\* Handler i takes a step.
HandlerStep(i) == handlers[i].pc # "idle" /\ handlers'[i] # handlers[i]
\* Handler i finishes with the step.
HandlerEnds(i, pc) == handlers[i].pc = pc /\ handlers'[i].pc = "idle"

(***************************************************************************)
(* C1: every key of the tree map and of the raw-text map has the shape of  *)
(* a locale code, every notification carries such a code, and a step of    *)
(* the bulk load or of a change handler on a file whose derived code has   *)
(* not the shape, and an updateLanguage call with such a code, change      *)
(* neither map and emit nothing.                                           *)
(***************************************************************************)
KeysValid ==
  /\ \A c \in DOMAIN languages \cup DOMAIN fileContents : LocaleShape(c)
  /\ \A n \in 1..Len(emitted) : LocaleShape(CodeOf(emitted[n]))

InvalidCodeStep ==
  \/ bulk.pc \in {"load", "readFile"} /\ bulk' # bulk /\ ~LocaleShape(LangNameOf(bulk.cur))
  \/ \E i \in 1..MaxHandlers :
       HandlerStep(i) /\ ~LocaleShape(LangNameOf(handlers[i].filePath))
  \/ \E ev \in pending : ev \notin pending' /\ ~LocaleShape(LangNameOf(ev.path))
  \/ calls' = calls + 1 /\ upd'.pc = "idle"

C1_OnlyLocaleCodes ==
  /\ []KeysValid
  /\ [][InvalidCodeStep => UNCHANGED <<languages, fileContents, emitted>>]_vars

\* The bulk load has scanned a parseable file with a bad name and stored
\* another file.
C1_Witness ==
  /\ bulk.pc = "done"
  /\ writes = 0
  /\ languages # EmptyMap
  /\ \E f \in readdir(fs) :
       /\ Recognized(f)
       /\ ~LocaleShape(LangNameOf(f))
       /\ Truthy(loadLanguageFile(fs, f))

(***************************************************************************)
(* C2: when a change handler that found a stored text differing from the   *)
(* file's finishes with a failed parse, the tree and the raw text of the   *)
(* code stay as they were, nothing is emitted, and loadlangmsg for the     *)
(* code returns what it returned before.                                   *)
(***************************************************************************)
FailedReloadStep(i) ==
  /\ HandlerEnds(i, "loadUpdate")
  /\ loadLanguageFile(fs, handlers[i].filePath) = Null

C2_FailedParseKeepsEntry ==
  [][\A i \in 1..MaxHandlers :
       FailedReloadStep(i) =>
         LET code == LangNameOf(handlers[i].filePath)
         IN /\ code \in DOMAIN languages /\ code \in DOMAIN languages'
            /\ languages'[code] = languages[code]
            /\ fileContents'[code] = fileContents[code]
            /\ emitted' = emitted
            /\ \A messageKey \in ProbePaths :
                 loadlangmsg(languages', fallbackLanguage, code, messageKey)
                   = loadlangmsg(languages, fallbackLanguage, code, messageKey)]_vars

\* All events are handled, the file holds a text that does not parse, and
\* the store still holds the tree of an earlier text.
C2_Witness ==
  /\ Quiescent
  /\ calls = 0
  /\ en_UK_json \in DOMAIN fs
  /\ fs[en_UK_json] = TextBad
  /\ en_UK \in DOMAIN languages
  /\ Truthy(languages[en_UK])
  /\ fileContents[en_UK] # TextBad
  /\ loadlangmsg(languages, fallbackLanguage, en_UK, W_M) \in {Str("hi"), Str("hello")}

(***************************************************************************)
(* C3: when updateLanguage finishes and the decoder rejected the file (a   *)
(* parse failure, or an explicit path with an unsupported extension), the  *)
(* tree and the raw text stored for the code are retained and no           *)
(* languageUpdated is emitted.                                             *)
(***************************************************************************)
C3_FailedForceReloadKeepsEntry ==
  [][(/\ upd.pc = "load"
      /\ upd'.pc = "idle"
      /\ loadLanguageFile(fs, upd.filePath) = Null)
       => UNCHANGED <<languages, fileContents, emitted>>]_vars

(***************************************************************************)
(* C4: a change handler that reads, for a code with an entry, a text that  *)
(* differs from the stored one goes on to parse it; when the file is still *)
(* that text and parses to a tree, the handler's last step stores the tree *)
(* and the text, loadlangmsg for the code then returns the values of that  *)
(* tree, and the step emits exactly one languageUpdated, with the code and *)
(* the tree; the handler is finished.                                      *)
(***************************************************************************)
ObservesChange(i) ==
  /\ handlers[i].pc = "readFile"
  /\ HandlerStep(i)
  /\ LangNameOf(handlers[i].filePath) \in DOMAIN fileContents
  /\ fs[handlers[i].filePath] \notin {NoFile, fileContents[LangNameOf(handlers[i].filePath)]}

PublishesChange(i) ==
  /\ HandlerEnds(i, "loadUpdate")
  /\ fs[handlers[i].filePath] = handlers[i].newFileContent
  /\ Truthy(loadLanguageFile(fs, handlers[i].filePath))

C4_ChangeIsPublishedOnce ==
  [][\A i \in 1..MaxHandlers :
       LET path == handlers[i].filePath
           code == LangNameOf(path)
           tree == loadLanguageFile(fs, path)
       IN /\ ObservesChange(i) =>
               /\ handlers'[i] = [pc |-> "loadUpdate", filePath |-> path,
                                  newFileContent |-> fs[path]]
               /\ UNCHANGED <<languages, fileContents, emitted>>
          /\ PublishesChange(i) =>
               /\ languages' = MapSet(languages, code, tree)
               /\ fileContents' = MapSet(fileContents, code, fs[path])
               /\ \A messageKey \in ProbePaths :
                    loadlangmsg(languages', fallbackLanguage, code, messageKey)
                      = walk(tree, split(messageKey), messageKey, code)
               /\ emitted' = Append(emitted,
                                    [event |-> "languageUpdated",
                                     payload |-> [langName |-> code, langData |-> tree]])
               /\ handlers'[i] = IdleHandler]_vars

\* The file was changed from one tree's text to another's, the handler has
\* run, and the one notification of the run is the update.
C4_Witness ==
  /\ Quiescent
  /\ calls = 0
  /\ writes = 1
  /\ en_UK_json \in DOMAIN fs
  /\ fs[en_UK_json] = TextHello
  /\ en_UK \in DOMAIN languages
  /\ languages[en_UK] = TreeHello
  /\ loadlangmsg(languages, fallbackLanguage, en_UK, W_M) = Str("hello")
  /\ emitted = <<UpdatedEvent(en_UK, TreeHello)>>

(***************************************************************************)
(* C5: a change handler that reads, for a code with an entry, a text equal *)
(* to the stored raw text ends there: it starts no parse, both maps and    *)
(* the emitted events are unchanged.                                       *)
(***************************************************************************)
ObservesSameText(i) ==
  /\ handlers[i].pc = "readFile"
  /\ HandlerStep(i)
  /\ LangNameOf(handlers[i].filePath) \in DOMAIN fileContents
  /\ fs[handlers[i].filePath] = fileContents[LangNameOf(handlers[i].filePath)]

C5_SameTextIsNoOp ==
  [][\A i \in 1..MaxHandlers :
       ObservesSameText(i) =>
         /\ handlers'[i] = IdleHandler
         /\ UNCHANGED <<languages, fileContents, emitted>>]_vars

\* After the bulk load stored the file, a change event for it is being
\* handled and the file holds the very text that is stored.
C5_Witness ==
  /\ bulk.pc = "done"
  /\ en_UK \in DOMAIN fileContents
  /\ languages[en_UK] = TreeHi
  /\ fs[en_UK_json] = fileContents[en_UK]
  /\ \E i \in 1..MaxHandlers :
       handlers[i].pc = "readFile" /\ handlers[i].filePath = en_UK_json

RECURSIVE Reaches(_, _)
Reaches(tree, keys) ==
  \/ keys = <<>>
  \/ /\ tree.kind = "object"
     /\ Head(keys) \in DOMAIN tree.props
     /\ Reaches(tree.props[Head(keys)], Tail(keys))

WalkedTree(langKey) ==
  IF Truthy(MapGet(languages, langKey)) THEN languages[langKey]
  ELSE MapGet(languages, fallbackLanguage)

IsDiagnosticOf(result, messageKey, langKey) ==
  /\ result.kind = "string"
  /\ "parts" \in DOMAIN result
  /\ \E n \in 1..Len(result.parts) : result.parts[n] = Sub(messageKey)
  /\ \E n \in 1..Len(result.parts) : result.parts[n] = Sub(langKey)

C7_MissingKeyDiagnostic ==
  (/\ lastRead.op = "loadlangmsg"
   /\ LocaleShape(lastRead.langKey)
   /\ Truthy(WalkedTree(lastRead.langKey))
   /\ ~Reaches(WalkedTree(lastRead.langKey), split(lastRead.messageKey)))
    => IsDiagnosticOf(lastRead.result, lastRead.messageKey, lastRead.langKey)

(***************************************************************************)
(* C8: a step of a change handler that creates the entry of a code emits   *)
(* languageLoaded for it and no languageUpdated, and every step that emits *)
(* languageUpdated with parsed data, in a change handler or in             *)
(* updateLanguage, is for a code that has an entry already.                *)
(***************************************************************************)
Emits(event) ==
  /\ Len(emitted') = Len(emitted) + 1
  /\ emitted'[Len(emitted')].event = event

C8_AddedThenUpdated ==
  [][/\ \A i \in 1..MaxHandlers :
          (/\ HandlerStep(i)
           /\ DOMAIN languages' # DOMAIN languages)
            => Emits("languageLoaded")
     /\ (Emits("languageUpdated") /\ Truthy(emitted'[Len(emitted')].payload.langData))
          => CodeOf(emitted'[Len(emitted')]) \in DOMAIN languages]_vars

(***************************************************************************)
(* C9: when a file with a recognized extension, a locale code as its stem  *)
(* and parseable content has been created after the constructor returned,  *)
(* nothing else has changed in the folder and the loader has nothing left  *)
(* to do, the code has an entry and languageLoaded was emitted for it.     *)
(***************************************************************************)
CreatedAfterStart(f) ==
  /\ writes = 1
  /\ fs[f] # NoFile
  /\ \E dir \in InitDirs : DOMAIN dir = DOMAIN fs /\ dir[f] = NoFile

C9_CreatedFileIsLoaded ==
  \A f \in DOMAIN fs :
    (/\ Quiescent
     /\ calls = 0
     /\ CreatedAfterStart(f)
     /\ Recognized(f)
     /\ LocaleShape(LangNameOf(f))
     /\ Truthy(loadLanguageFile(fs, f)))
      => /\ LangNameOf(f) \in DOMAIN languages
         /\ \E n \in 1..Len(emitted) :
              emitted[n].event = "languageLoaded" /\ CodeOf(emitted[n]) = LangNameOf(f)

(***************************************************************************)
(* C10: while the folder is as it was at construction and updateLanguage   *)
(* was not called, a read of a code whose file is in the folder, has a     *)
(* valid name and parses returns that file's tree (loadlang) or the value  *)
(* the path has in it (loadlangmsg), at whatever moment the read is made.  *)
(***************************************************************************)
C10_ReadsSeeTheBulkLoad ==
  \A f \in DOMAIN fs :
    (/\ lastRead.op # "none"
     /\ writes = 0
     /\ calls = 0
     /\ fs[f] # NoFile
     /\ Recognized(f)
     /\ LocaleShape(LangNameOf(f))
     /\ Truthy(loadLanguageFile(fs, f))
     /\ lastRead.langKey = LangNameOf(f))
      => IF lastRead.op = "loadlang"
           THEN lastRead.result = loadLanguageFile(fs, f)
           ELSE lastRead.result = walk(loadLanguageFile(fs, f), split(lastRead.messageKey),
                                       lastRead.messageKey, lastRead.langKey)

(***************************************************************************)
(* C11: no call of the loader ends in a rejected promise or a thrown       *)
(* error: not the bulk load, not a change handler, not updateLanguage,     *)
(* whether the folder can be listed or not, a file can be read or not, and *)
(* the decoder accepts the text or not.                                    *)
(***************************************************************************)
C11_FailuresAreSwallowed == rejected = {}

(***************************************************************************)
(* C12: when the default or the fallback language has not the shape of a   *)
(* locale code, no bulk load and no change handler ever runs, no watcher   *)
(* event is ever queued, and both maps and the emitted events change only  *)
(* in the last step of an updateLanguage call; with no such call the store *)
(* is empty and nothing was emitted, whatever happens in the folder.       *)
(***************************************************************************)
ConfigShape == LocaleShape(defaultLanguage) /\ LocaleShape(fallbackLanguage)

Inert ==
  /\ bulk.pc = "inert"
  /\ pending = {}
  /\ \A i \in 1..MaxHandlers : handlers[i].pc = "idle"
  /\ calls = 0 => languages = EmptyMap /\ fileContents = EmptyMap /\ emitted = <<>>

C12_InvalidConfigIsInert ==
  /\ [](~ConfigShape => Inert)
  /\ [][(~ConfigShape /\ <<languages, fileContents, emitted>>' # <<languages, fileContents, emitted>>)
          => upd.pc = "load"]_vars

\* The fallback code is invalid, a loadable file was rewritten, and the
\* store is empty.
C12_Witness ==
  /\ LocaleShape(defaultLanguage)
  /\ ~LocaleShape(fallbackLanguage)
  /\ writes >= 1
  /\ fs[en_UK_json] = TextHello
  /\ languages = EmptyMap
  /\ emitted = <<>>

(***************************************************************************)
(* C13: when the bulk load has finished on a folder that nothing wrote to  *)
(* and updateLanguage was not called, the keys of both maps are exactly    *)
(* the stems of the files with a recognized extension, a stem of the       *)
(* locale code shape and a text the decoder turns into a tree; each entry  *)
(* holds the tree and the text of its file; files with other names do not  *)
(* end the scan; nothing was emitted.                                      *)
(***************************************************************************)
Stem(f) == SubSeq(f, 1, LastDot(f) - 1)

Loadable ==
  {f \in readdir(fs) :
     /\ extname(f) \in RecognizedExts
     /\ LocaleShape(Stem(f))
     /\ loadLanguageFile(fs, f).kind = "object"}

C13_BulkLoadStoresTheFolder ==
  (bulk.pc = "done" /\ folder = Directory /\ writes = 0 /\ calls = 0)
    => /\ DOMAIN languages = {Stem(f) : f \in Loadable}
       /\ DOMAIN fileContents = {Stem(f) : f \in Loadable}
       /\ \A f \in Loadable :
            languages[Stem(f)] = loadLanguageFile(fs, f) /\ fileContents[Stem(f)] = fs[f]
       /\ emitted = <<>>

\* The scan of a folder with a loadable file, a file with a bad name and a
\* file with an unrecognized extension has ended.
C13_Witness ==
  /\ bulk.pc = "done"
  /\ writes = 0 /\ calls = 0
  /\ {en_UK_json, en_json, en_UK_txt} \subseteq readdir(fs)
  /\ languages = (en_UK :> TreeHi)
  /\ fileContents = (en_UK :> TextHi)
  /\ emitted = <<>>

(***************************************************************************)
(* C14: an updateLanguage call for a valid code whose file can be read     *)
(* goes on from the read to the parse whatever text is stored for the      *)
(* code, and when the file parses to a tree its last step overwrites the   *)
(* tree of the code with the parsed tree and the raw text with the text    *)
(* read, also when that text equals the stored raw text.                   *)
(***************************************************************************)
UpdReads ==
  /\ upd.pc = "readFile"
  /\ upd' # upd
  /\ upd.filePath \in DOMAIN fs
  /\ fs[upd.filePath] # NoFile

UpdParses ==
  /\ upd.pc = "load"
  /\ upd' # upd
  /\ Truthy(loadLanguageFile(fs, upd.filePath))

C14_ForceReloadOverwrites ==
  [][/\ UpdReads =>
          /\ LocaleShape(upd.langKey)
          /\ upd' = [upd EXCEPT !.pc = "load", !.newFileContent = fs[upd.filePath]]
     /\ UpdParses =>
          /\ languages' = [c \in DOMAIN languages \cup {upd.langKey} |->
                             IF c = upd.langKey THEN loadLanguageFile(fs, upd.filePath)
                             ELSE languages[c]]
          /\ fileContents' = [c \in DOMAIN fileContents \cup {upd.langKey} |->
                                IF c = upd.langKey THEN upd.newFileContent
                                ELSE fileContents[c]]
          /\ upd'.pc = "idle"]_vars

\* The file still holds the text the bulk load stored, no watcher event
\* was handled, and updateLanguage has stored and published the file.
C14_Witness ==
  /\ bulk.pc = "done"
  /\ writes = 0
  /\ upd.pc = "idle"
  /\ en_UK_json \in DOMAIN fs
  /\ fs[en_UK_json] = TextHi
  /\ fileContents = (en_UK :> TextHi)
  /\ languages = (en_UK :> TreeHi)
  /\ emitted = <<UpdatedEventByKey(en_UK, TreeHi)>>

(***************************************************************************)
(* C15: when neither the requested code nor the fallback language is a key *)
(* of the store, loadlang returns undefined (a value, not an error) and    *)
(* loadlangmsg returns a string that names the requested code; a read      *)
(* changes neither map.                                                    *)
(***************************************************************************)
NothingToServe ==
  /\ lastRead.op # "none"
  /\ lastRead.langKey \notin DOMAIN languages
  /\ fallbackLanguage \notin DOMAIN languages

C15_UnavailableIsAValue ==
  /\ [](NothingToServe =>
          IF lastRead.op = "loadlang"
            THEN lastRead.result = [kind |-> "undefined"]
            ELSE /\ lastRead.result.kind = "string"
                 /\ "parts" \in DOMAIN lastRead.result
                 /\ \E n \in 1..Len(lastRead.result.parts) :
                      lastRead.result.parts[n] = Sub(lastRead.langKey))
  /\ [][lastRead'.op # "none" => UNCHANGED <<languages, fileContents>>]_vars

\* A message of a code that was never loaded was asked for while another
\* language than the fallback is in the store.
C15_Witness ==
  /\ lastRead.op = "loadlangmsg"
  /\ lastRead.langKey = fr_FR
  /\ lastRead.messageKey = W_M
  /\ fallbackLanguage = en_UK
  /\ languages = (de_DE :> TreeHello)
  /\ lastRead.result.kind = "string"
  /\ "parts" \in DOMAIN lastRead.result

(***************************************************************************)
(* C16: when the tree stored for the requested code lacks the dotted path  *)
(* and the tree stored for the fallback language has it, loadlangmsg       *)
(* returns the value the path has in the fallback language's tree.         *)
(***************************************************************************)
RECURSIVE ValueAt(_, _)
ValueAt(tree, keys) ==
  IF keys = <<>> THEN tree ELSE ValueAt(tree.props[Head(keys)], Tail(keys))

IsTree(v) == v.kind = "object"

C16_MissingKeyFallsBack ==
  (/\ lastRead.op = "loadlangmsg"
   /\ LocaleShape(lastRead.langKey)
   /\ lastRead.langKey \in DOMAIN languages
   /\ IsTree(languages[lastRead.langKey])
   /\ ~Reaches(languages[lastRead.langKey], split(lastRead.messageKey))
   /\ fallbackLanguage \in DOMAIN languages
   /\ IsTree(languages[fallbackLanguage])
   /\ Reaches(languages[fallbackLanguage], split(lastRead.messageKey)))
    => lastRead.result = ValueAt(languages[fallbackLanguage], split(lastRead.messageKey))

(***************************************************************************)
(* C17: every file that is in the folder from the construction on, has one *)
(* of the extensions .yaml, .yml, .json, .toml, a stem of the locale code  *)
(* shape and a text that is a well-formed document of its format with a    *)
(* tree in it, is in the store under its stem, with the tree of its text,  *)
(* once the bulk load has finished on the untouched folder, and is in the  *)
(* store under its stem once the handlers of one later change in the       *)
(* folder have finished.                                                   *)
(***************************************************************************)
WellFormed(f) ==
  LET ext == extname(f)
      res == IF ext \in {DotYaml, DotYml} THEN yamlload(fs[f])
             ELSE IF ext = DotJson THEN JSONparse(fs[f])
             ELSE tomlparse(fs[f])
  IN IF res.ok THEN res.data.kind = "object" ELSE FALSE

Document(f) ==
  LET ext == extname(f)
  IN IF ext \in {DotYaml, DotYml} THEN yamlload(fs[f]).data
     ELSE IF ext = DotJson THEN JSONparse(fs[f]).data
     ELSE tomlparse(fs[f]).data

ThereFromTheStart(f) ==
  \E dir \in InitDirs \cup {DirYaml} : DOMAIN dir = DOMAIN fs /\ dir[f] # NoFile

C17_RecognizedExtensionsDecode ==
  \A f \in readdir(fs) :
    (/\ Quiescent
     /\ bulk.pc = "done"
     /\ calls = 0
     /\ writes <= 1
     /\ ThereFromTheStart(f)
     /\ extname(f) \in RecognizedExts
     /\ LocaleShape(Stem(f))
     /\ WellFormed(f))
      => /\ Stem(f) \in DOMAIN languages
         /\ writes = 0 => languages[Stem(f)] = Document(f)

(***************************************************************************)
(* C18: a code that is a key of the tree map or of the raw-text map stays  *)
(* a key of it in every step: of a change handler, whether its parse fails *)
(* or not, of updateLanguage, of the bulk load, and when files are removed *)
(* or become unreadable.                                                   *)
(***************************************************************************)
C18_EntriesAreKept ==
  [][/\ DOMAIN languages \subseteq DOMAIN languages'
     /\ DOMAIN fileContents \subseteq DOMAIN fileContents']_vars

\* The file of a loaded code was overwritten with a text that does not
\* parse and then removed; its handlers have run and the entry is there.
C18_Witness ==
  /\ Quiescent
  /\ en_UK_json \in DOMAIN fs
  /\ fs[en_UK_json] = NoFile
  /\ writes = 2
  /\ en_UK \in DOMAIN languages
  /\ en_UK \in DOMAIN fileContents

(***************************************************************************)
(* C19: at most one change handler is between its start and its end at any *)
(* time, and none is while the bulk load is between its start and its end. *)
(***************************************************************************)
InProgress(i) == handlers[i].pc # "idle"

C19_HandlersRunSerially ==
  /\ \A i, j \in 1..MaxHandlers : (InProgress(i) /\ InProgress(j)) => i = j
  /\ (\E i \in 1..MaxHandlers : InProgress(i)) => bulk.pc \in {"done", "inert"}

(***************************************************************************)
(* C20: in every state a reader can see, also between the steps of a bulk  *)
(* load, a change handler or updateLanguage, the tree map and the raw-text *)
(* map have the same keys and every stored value is a whole document as a  *)
(* decoder returned it (or its null); loadlang for a stored code returns   *)
(* the value the map holds in that state, and a step replaces the value of *)
(* a code by such a whole document.                                        *)
(***************************************************************************)
Texts == Contents \cup {fs[f] : f \in DOMAIN fs} \cup {""}

WholeDocuments ==
  {[kind |-> "null"]}
    \cup {JSONparse(t).data : t \in {x \in Texts : JSONparse(x).ok}}
    \cup {yamlload(t).data : t \in {x \in Texts : yamlload(x).ok}}
    \cup {tomlparse(t).data : t \in {x \in Texts : tomlparse(x).ok}}

SameKeys == DOMAIN languages = DOMAIN fileContents

ReadsAreWhole ==
  (/\ lastRead.op = "loadlang"
   /\ LocaleShape(lastRead.langKey)
   /\ lastRead.langKey \in DOMAIN languages)
    => /\ lastRead.result = languages[lastRead.langKey]
       /\ lastRead.result \in WholeDocuments

C20_StoreSwapsWholeEntries ==
  /\ [](SameKeys /\ ReadsAreWhole)
  /\ [][\A c \in DOMAIN languages' : languages'[c] \in WholeDocuments]_vars

\* loadlang was called while a change handler had read the new text of the
\* file and not yet stored it: the call returned the tree stored before.
C20_Witness ==
  /\ lastRead.op = "loadlang"
  /\ lastRead.langKey = en_UK
  /\ lastRead.result = TreeHi
  /\ \E i \in 1..MaxHandlers :
       /\ handlers[i].pc = "loadUpdate"
       /\ handlers[i].filePath = en_UK_json
       /\ handlers[i].newFileContent = TextHello

(***************************************************************************)
(* C21: in every state, the tree stored for a code is what a decoder       *)
(* returns for the raw text stored for that code.  (Stored values that are *)
(* no tree, as updateLanguage leaves them after a failed parse, are not    *)
(* looked at here.)                                                        *)
(***************************************************************************)
ParsesTo(text, tree) ==
  \/ JSONparse(text).ok /\ JSONparse(text).data = tree
  \/ yamlload(text).ok /\ yamlload(text).data = tree
  \/ tomlparse(text).ok /\ tomlparse(text).data = tree

C21_TreeIsParseOfRawText ==
  \A c \in DOMAIN languages :
    Truthy(languages[c]) =>
      c \in DOMAIN fileContents /\ ParsesTo(fileContents[c], languages[c])

(***************************************************************************)
(* C22: when the bulk load and every change handler have finished, no      *)
(* event is waiting, updateLanguage was not called, and a file that has    *)
(* been in the folder from the construction on (changed at most once, not  *)
(* removed) has a valid code and a text the decoder turns into a tree,     *)
(* then the raw text stored for the code is the text of the file and the   *)
(* stored tree is its parse.                                               *)
(***************************************************************************)
C22_NoLostUpdate ==
  \A f \in DOMAIN fs :
    (/\ Quiescent
     /\ bulk.pc = "done"
     /\ calls = 0
     /\ writes <= 1
     /\ ThereFromTheStart(f)
     /\ fs[f] # NoFile
     /\ extname(f) \in RecognizedExts
     /\ LocaleShape(Stem(f))
     /\ loadLanguageFile(fs, f).kind = "object")
      => /\ Stem(f) \in DOMAIN fileContents
         /\ fileContents[Stem(f)] = fs[f]
         /\ languages[Stem(f)] = loadLanguageFile(fs, f)

(***************************************************************************)
(* C23: for a valid code, while the fallback language has a tree in the    *)
(* store, loadlangmsg(code, path) is the walk along the path of what       *)
(* loadlang(code) returns, whatever is stored for the code: a tree, null,  *)
(* undefined or nothing.                                                   *)
(***************************************************************************)
C23_MessageWalksResolvedLanguage ==
  (/\ lastRead.op = "loadlangmsg"
   /\ LocaleShape(lastRead.langKey)
   /\ fallbackLanguage \in DOMAIN languages
   /\ Truthy(languages[fallbackLanguage]))
    => lastRead.result =
         walk(loadlang(languages, fallbackLanguage, defaultLanguage, lastRead.langKey),
              split(lastRead.messageKey), lastRead.messageKey, lastRead.langKey)

(***************************************************************************)
(* C24: a step that emits languageLoaded or languageUpdated leaves the     *)
(* tree of the notification stored for the code of the notification, and   *)
(* the notification carries code and tree under the same property names as *)
(* every notification emitted before, by a change handler or by            *)
(* updateLanguage.                                                         *)
(***************************************************************************)
Emitting == Len(emitted') = Len(emitted) + 1

C24_NotificationsCarryCodeAndTree ==
  [][Emitting =>
       LET n == emitted'[Len(emitted')]
       IN /\ "langData" \in DOMAIN n.payload
          /\ CodeOf(n) \in DOMAIN languages'
          /\ languages'[CodeOf(n)] = n.payload.langData
          /\ \A k \in 1..Len(emitted) :
               DOMAIN emitted[k].payload = DOMAIN n.payload]_vars

(***************************************************************************)
(* C25: a step that emits languageLoaded emits it for a code that has no   *)
(* entry in the store before the step and for which no languageLoaded was  *)
(* emitted before.                                                         *)
(***************************************************************************)
C25_AddedAtMostOnce ==
  [][Emits("languageLoaded") =>
       LET code == CodeOf(emitted'[Len(emitted')])
       IN /\ code \notin DOMAIN languages
          /\ \A k \in 1..Len(emitted) :
               ~(emitted[k].event = "languageLoaded" /\ CodeOf(emitted[k]) = code)]_vars

(***************************************************************************)
(* C26: the store the bulk load ends with on an unchanging folder does not *)
(* depend on the order in which the files are processed: whichever         *)
(* loadable file of a stem is processed last, the entry of the stem is the *)
(* same, so it holds the tree and the text of every loadable file with     *)
(* that stem.                                                              *)
(***************************************************************************)
C26_BulkLoadOrderIndependent ==
  bulk.pc = "done" =>
    \A f \in Loadable :
      /\ Stem(f) \in DOMAIN languages
      /\ languages[Stem(f)] = loadLanguageFile(fs, f)
      /\ fileContents[Stem(f)] = fs[f]

(***************************************************************************)
(* C27: as long as nothing has written to the folder since the             *)
(* construction and updateLanguage was not called, no watcher event is     *)
(* waiting, no change handler is running, nothing was emitted, and a step  *)
(* that changes the store is the bulk load storing the file it is at, for  *)
(* a code that has no entry yet, and it is done with that file.            *)
(***************************************************************************)
Untouched == writes = 0 /\ calls = 0

NoWatcherActivity ==
  /\ pending = {}
  /\ \A i \in 1..MaxHandlers : handlers[i].pc = "idle"
  /\ emitted = <<>>

C27_InitialStateIsNotReplayed ==
  /\ [](Untouched => NoWatcherActivity)
  /\ [][(Untouched /\ <<languages, fileContents>>' # <<languages, fileContents>>)
          => /\ bulk.pc = "readFile"
             /\ LangNameOf(bulk.cur) \notin DOMAIN languages
             /\ DOMAIN languages' = DOMAIN languages \cup {LangNameOf(bulk.cur)}
             /\ bulk.cur \notin bulk'.todo
             /\ bulk'.cur # bulk.cur]_vars

\* The bulk load has stored the one loadable file of an untouched folder
\* and has gone through the other files; the watcher has reported nothing.
C27_Witness ==
  /\ Untouched
  /\ bulk.pc = "done"
  /\ Started
  /\ DOMAIN languages = {en_UK}
  /\ readdir(fs) = {en_UK_json, en_json, en_UK_txt}
  /\ NoWatcherActivity

====
